---- MODULE Spec2Model ----
(***************************************************************************)
(* Model of the dataset / embedding bookkeeping core of LabelBench:        *)
(*   LabelBench/skeleton/dataset_skeleton.py  (TransformDataset,           *)
(*   DatasetOnMemory, ALDataset).                                          *)
(*                                                                         *)
(* Python values are encoded as follows.                                   *)
(*   - None / a value: a record with a tag field (kind, lazy, present,     *)
(*     pending) and the payload fields always present, so that every       *)
(*     field has one shape.                                                *)
(*   - an embedding: kind is "none", "single" or "pair"; w is the matrix,  *)
(*     or the first (weak) component of a pair, s the second (strong) one. *)
(*   - an embedding matrix: a sequence of rows, each row a sequence of     *)
(*     integers; shape[0] is Len(m), shape[1] is Len(m[1]).                *)
(*   - np.mean(m, axis=0)[c] is the exact rational num/den;                *)
(*     np.std(m, axis=0)[c] is sqrt(rad)/den (population std);             *)
(*     (x - mean)/std is kept as the exact symbolic quotient.              *)
(*   - the result of a call is the record `last` (operation, arguments,    *)
(*     outcome, returned value).                                           *)
(*                                                                         *)
(* Specifications: Spec runs the embedding and label side of ALDataset,    *)
(* SpecTracker the labeled-index tracker interleaved with the other        *)
(* ALDataset operations, SpecTransform one TransformDataset.               *)
(***************************************************************************)
EXTENDS Integers, Sequences, FiniteSets, TLC

\* ------------------------------------------------------------------ bounds
TrainLen == 3
ValLen == 2
TestLen == 2
EmbDim == 2
MaxVal == 1
MaxNew == 2
MaxLabeled == 3
MaxCalls == 2
BaseLen == 2
MaxBaseLen == 3
MaxMemLen == 2
MaxRegs == 3
MaxWrites == 2

VARIABLES
    train_emb, val_emb, test_emb,       \* ALDataset.train_emb / val_emb / test_emb
    train_emb_mean, train_emb_std,      \* ALDataset.__train_emb_mean / __train_emb_std
    labeled,                            \* ALDataset.__labeled_idxs
    train_labels, val_labels, test_labels, \* ALDataset.__train_labels / __val_labels / __test_labels
    producer_calls,                     \* how often each label producer function has run
    label_calls,                        \* the arguments of the update_labeled_idxs calls so far
    wrapper,                            \* one TransformDataset object (its fields)
    written,                            \* the value last assigned to each transform field
    base,                               \* the raw dataset the wrapper was built on, as its owner holds it
    reset_done,                         \* which reset-to-default calls ran after the last transform setter call
    reader,                             \* a thread inside TransformDataset.__getitem__: position and locals
    mem,                                \* one DatasetOnMemory object (its fields)
    datasets,                           \* the module-level registry dict `datasets`
    reg_log,                            \* the register_dataset decorations so far, in order
    trainer_config,                     \* the trainer_config dict handed to get_optimizer_fn
    albench,                            \* an ALDataset of the ALBench copy (its fields, its last call)
    last                                \* the last call: operation, arguments, outcome, result

vars == <<train_emb, val_emb, test_emb, train_emb_mean, train_emb_std, labeled,
          train_labels, val_labels, test_labels, producer_calls, label_calls,
          wrapper, written, base, reset_done, reader, mem, datasets, reg_log,
          trainer_config, albench, last>>

embVars == <<train_emb, val_emb, test_emb>>
statVars == <<train_emb_mean, train_emb_std>>
labelVars == <<train_labels, val_labels, test_labels, producer_calls>>
trackerVars == <<labeled, label_calls>>
wrapperVars == <<wrapper, written>>
alVars == <<embVars, statVars, labelVars, trackerVars, albench>>
envVars == <<base, reset_done, reader>>
moduleVars == <<mem, datasets, reg_log, trainer_config>>

\* ------------------------------------------------------------ Python values
Splits == <<"train", "val", "test">>

SplitLen(split) ==
    IF split = "train" THEN TrainLen ELSE IF split = "val" THEN ValLen ELSE TestLen

NoEmb == [kind |-> "none", w |-> <<>>, s |-> <<>>]
Single(m) == [kind |-> "single", w |-> m, s |-> <<>>]
Paired(m0, m1) == [kind |-> "pair", w |-> m0, s |-> m1]

\* The embedding matrix a feature extractor whose model is in state v computes
\* for a split of n items (v = 0: every row is the same, a zero-variance
\* embedding), and the one it computes from the strongly augmented inputs.
Mat(n, v) == [r \in 1..n |-> [c \in 1..EmbDim |-> v * r + c]]
StrongMat(n, v) == [r \in 1..n |-> [c \in 1..EmbDim |-> v * r + c + 1]]

\* The label array of a split (what the producer function returns, or the
\* concrete array handed to the constructor).
LabelArray(split) == [r \in 1..SplitLen(split) |-> r % 2]

LazyLabels == [lazy |-> TRUE, v |-> <<>>]
Realized(arr) == [lazy |-> FALSE, v |-> arr]

PendingStat == [pending |-> TRUE, v |-> <<>>]
FrozenStat(vec) == [pending |-> FALSE, v |-> vec]

NoTracker == [present |-> FALSE, v |-> <<>>]
Tracker(seq) == [present |-> TRUE, v |-> seq]

NoCall == [op |-> "init", outcome |-> "ok"]

\* src/ALBench/skeleton/dataset_skeleton.py lines 137-151: the fields of an
\* ALBench ALDataset after construction, given label producers (lazy) or
\* label arrays, and no weak labels.
ALBenchInit(lazy) ==
    [train_emb |-> NoEmb, val_emb |-> NoEmb, test_emb |-> NoEmb,
     train_emb_mean |-> PendingStat, train_emb_std |-> PendingStat,
     labeled |-> NoTracker,
     train_labels |-> IF lazy THEN LazyLabels ELSE Realized(LabelArray("train")),
     val_labels |-> IF lazy THEN LazyLabels ELSE Realized(LabelArray("val")),
     test_labels |-> IF lazy THEN LazyLabels ELSE Realized(LabelArray("test")),
     last |-> NoCall]

\* No thread is inside __getitem__.  A reader holds its position, the locals
\* of __getitem__ (x is <<>> while unbound) and, for the claims, the transform
\* each step applied, the values each field held since the call began, the
\* number of setter calls since then, and the outcome once it is done.
NoReader ==
    [pc |-> "idle", item |-> 0, x_orig |-> 0, x |-> <<>>, y |-> 0,
     applied |-> [transform |-> "None", target_transform |-> "None", strong_transform |-> "None"],
     seen |-> [transform |-> {}, target_transform |-> {}, strong_transform |-> {}],
     writes |-> 0,
     result |-> [outcome |-> "none", x |-> <<>>, y |-> 0, idx |-> <<>>]]

\* No DatasetOnMemory has been constructed.
NoMem == [ok |-> FALSE]

\* An absent key of a dict, and the trainer_config before one is supplied.
NoKey == [present |-> FALSE, v |-> 0]
NoOptimFn == [present |-> FALSE, cls |-> "", lr |-> NoKey, weight_decay |-> 0, betas |-> NoKey,
              nesterov |-> FALSE, momentum |-> 0]
NoConfig ==
    [trainer_name |-> <<>>, optim_name |-> [present |-> FALSE, v |-> ""], lr |-> NoKey, wd |-> NoKey,
     betas |-> NoKey, nesterov |-> [present |-> FALSE, v |-> FALSE], momentum |-> NoKey,
     optim_fn |-> NoOptimFn]

\* No reset-to-default call has run.
NoReset == [transform |-> FALSE, target_transform |-> FALSE, custom |-> FALSE]

NumClasses == 2

\* ------------------------------------------------------------------- numpy
RECURSIVE ColSum(_, _, _)
\* sum over the first n rows of column c
ColSum(m, c, n) == IF n = 0 THEN 0 ELSE m[n][c] + ColSum(m, c, n - 1)

RECURSIVE ColSumSq(_, _, _)
ColSumSq(m, c, n) == IF n = 0 THEN 0 ELSE m[n][c] * m[n][c] + ColSumSq(m, c, n - 1)

\* m.shape[1]
Shape1(m) == Len(m[1])

\* np.mean(m, axis=0): per column the rational num/den
NpMean(m) == [c \in 1..Shape1(m) |-> [num |-> ColSum(m, c, Len(m)), den |-> Len(m)]]

\* np.std(m, axis=0): per column sqrt(rad)/den, rad = n*sum(x^2) - sum(x)^2
NpStd(m) ==
    [c \in 1..Shape1(m) |->
        [rad |-> Len(m) * ColSumSq(m, c, Len(m)) - ColSum(m, c, Len(m)) * ColSum(m, c, Len(m)),
         den |-> Len(m)]]

\* (m - mean) / std, elementwise with the statistics broadcast over the rows:
\* the entry is num / (den * sqrt(rad)); rad = 0 is the unguarded division
\* by a zero standard deviation.
Normalize(m, mean, std) ==
    [r \in 1..Len(m) |->
        [c \in 1..Shape1(m) |->
            [num |-> (m[r][c] * mean[c].den - mean[c].num) * std[c].den,
             den |-> mean[c].den,
             rad |-> std[c].rad]]]

\* --------------------------------------------------------- DatasetOnMemory
\* A length check that looks at the first component of a pair only.
DatasetOnMemoryLengthsOkFirst(X, y) == Len(X.w) = Len(y)

\* len(X) of the non-tuple branch, len(X[0]) and len(X[1]) of the tuple branch
DatasetOnMemoryLengthsOk(X, y) ==
    IF X.kind = "pair"
    THEN Len(X.w) = Len(y) /\ Len(X.s) = Len(y)
    ELSE Len(X.w) = Len(y)

DatasetOnMemory(X, y, n_class) ==
    IF DatasetOnMemoryLengthsOk(X, y)
    THEN [ok |-> TRUE, X |-> X, y |-> y, n_class |-> n_class, return_indices |-> FALSE]
    ELSE [ok |-> FALSE, X |-> NoEmb, y |-> <<>>, n_class |-> n_class, return_indices |-> FALSE]

\* ------------------------------------------------------------ the registry
\* Dataset names, label types (LabelType, lines 8-11) and construction
\* functions, as the cifar10 module decorates them.
DatasetNames == {"cifar10", "cifar10_imb"}
LabelTypes == {"MULTI_CLASS", "MULTI_LABEL"}
GetFns == {"get_cifar10_dataset", "get_cifar10_imb_dataset"}

\* The dict `datasets`: a key that is not in the dict has present = FALSE.
NotRegistered == [present |-> FALSE, type |-> "", get_fn |-> ""]
EmptyRegistry == [n \in DatasetNames |-> NotRegistered]

\* A registry that keeps the first registration of a name.
PutIfAbsent(d, name, type, get_fn) ==
    IF d[name].present THEN d
    ELSE [d EXCEPT ![name] = [present |-> TRUE, type |-> type, get_fn |-> get_fn]]

\* line 26: datasets[name] = (type, get_fn)
Put(d, name, type, get_fn) ==
    [d EXCEPT ![name] = [present |-> TRUE, type |-> type, get_fn |-> get_fn]]

\* lines 17-29: register_dataset(name, type)(get_fn); the decorator returns
\* get_fn.
RegisterDataset(name, type, get_fn) ==
    /\ Len(reg_log) < MaxRegs
    /\ datasets' = Put(datasets, name, type, get_fn)
    /\ reg_log' = Append(reg_log, [name |-> name, type |-> type, get_fn |-> get_fn])
    /\ last' = [op |-> "register_dataset", outcome |-> "ok", name |-> name, value |-> get_fn]
    /\ UNCHANGED <<alVars, wrapperVars, envVars, mem, trainer_config>>

\* datasets[name], as the callers of the registry read it
LookupDataset(name) ==
    /\ last' = [op |-> "lookup", outcome |-> IF datasets[name].present THEN "ok" ELSE "KeyError",
                name |-> name, value |-> datasets[name]]
    /\ UNCHANGED <<alVars, wrapperVars, envVars, moduleVars>>

\* ------------------------------------------------------------- the trainer
\* (src/ALBench/trainer/trainer.py)  Strings that the code takes apart are
\* sequences of characters.
Sklearn == <<"s", "k", "l", "e", "a", "r", "n">>

TrainerNames ==
    {Sklearn,
     <<"s", "k", "l", "e", "a", "r", "n", "_", "p">>,
     <<"p", "y", "t", "o", "r", "c", "h", "_", "p">>,
     <<"s", "k", "l", "e", "a", "r", "n", "x">>,
     <<"_", "s", "k", "l", "e", "a", "r", "n">>}

OptimNames == {"Adam", "SGD", "RMSprop", "adam"}

\* str.split("_")[0]: the characters before the first underscore
RECURSIVE SplitHead(_)
SplitHead(str) ==
    IF str = <<>> \/ Head(str) = "_" THEN <<>> ELSE <<Head(str)>> \o SplitHead(Tail(str))

\* The configurations handed to get_optimizer_fn.
TrainerConfigs ==
    {[NoConfig EXCEPT !.trainer_name = name, !.optim_name = optim_name, !.lr = [present |-> TRUE, v |-> 1],
                      !.wd = wd, !.betas = betas, !.nesterov = nesterov]
        : name \in TrainerNames,
          optim_name \in {[present |-> TRUE, v |-> o] : o \in OptimNames} \cup {NoConfig.optim_name},
          wd \in {NoKey, [present |-> TRUE, v |-> 1]},
          betas \in {NoKey, [present |-> TRUE, v |-> 9]},
          nesterov \in {NoConfig.nesterov, [present |-> TRUE, v |-> TRUE]}}

ConfigError(kind, message) == [outcome |-> kind, message |-> message, optim_fn |-> NoOptimFn]

\* An optimizer choice that falls back to SGD for a name it does not know.
ConfigureOptimizerFallback(c) ==
    IF ~c.optim_name.present THEN ConfigError("KeyError", <<"optim_name">>)
    ELSE [outcome |-> "ok", message |-> <<>>,
          optim_fn |-> [NoOptimFn EXCEPT !.present = TRUE, !.cls = "SGD", !.lr = c.lr]]

\* lines 38-54: the optimizer factory for a trainer that is not sklearn.
\* The factory reads trainer_config["lr"] only when it is called.
ConfigureOptimizer(c) ==
    LET wd == IF c.wd.present THEN c.wd.v ELSE 0
    IN  IF ~c.optim_name.present THEN ConfigError("KeyError", <<"optim_name">>)
        ELSE IF c.optim_name.v = "Adam"
        THEN [outcome |-> "ok", message |-> <<>>,
              optim_fn |-> [NoOptimFn EXCEPT !.present = TRUE, !.cls = "Adam", !.lr = c.lr,
                                             !.weight_decay = wd, !.betas = c.betas]]
        ELSE IF c.optim_name.v = "SGD"
        THEN [outcome |-> "ok", message |-> <<>>,
              optim_fn |-> [NoOptimFn EXCEPT !.present = TRUE, !.cls = "SGD", !.lr = c.lr,
                                             !.weight_decay = wd,
                                             !.nesterov = IF c.nesterov.present THEN c.nesterov.v ELSE FALSE,
                                             !.momentum = IF c.momentum.present THEN c.momentum.v ELSE 0]]
        ELSE ConfigError("ValueError", <<c.optim_name.v, "optimizer is unknown">>)

\* The caller supplies a trainer_config.
SupplyConfig(c) ==
    /\ trainer_config' = c
    /\ last' = [op |-> "supply_config", outcome |-> "ok"]
    /\ UNCHANGED <<alVars, wrapperVars, envVars, mem, datasets, reg_log>>

\* lines 33-56
GetOptimizerFn ==
    /\ trainer_config # NoConfig
    /\ LET train_method == SplitHead(trainer_config.trainer_name)
           r == ConfigureOptimizer(trainer_config)
       IN  IF train_method # Sklearn
           THEN /\ trainer_config' = IF r.outcome = "ok"
                                     THEN [trainer_config EXCEPT !.optim_fn = r.optim_fn]
                                     ELSE trainer_config
                /\ last' = [op |-> "get_optimizer_fn", outcome |-> r.outcome, message |-> r.message,
                            config |-> trainer_config]
           ELSE /\ trainer_config' = trainer_config
                /\ last' = [op |-> "get_optimizer_fn", outcome |-> "ok", message |-> <<>>,
                            config |-> trainer_config]
    /\ UNCHANGED <<alVars, wrapperVars, envVars, mem, datasets, reg_log>>

\* Input containers and label containers handed to the constructor: a
\* sequence of n inputs, or a tuple of two such sequences, and n labels.
WeakInputs(n) == [i \in 1..n |-> 10 * i]
StrongInputs(n) == [i \in 1..n |-> 10 * i + 1]
MemLabels(n) == [i \in 1..n |-> i % NumClasses]

MemInputs ==
    {Single(WeakInputs(n)) : n \in 0..MaxMemLen}
        \cup {Paired(WeakInputs(n), StrongInputs(k)) : n \in 0..MaxMemLen, k \in 0..MaxMemLen}

\* lines 37-45.  A failed assert leaves no object behind; the variable keeps
\* the object constructed before.
Construct(X, y) ==
    LET obj == DatasetOnMemory(X, y, NumClasses)
    IN  /\ mem' = IF obj.ok THEN obj ELSE mem
        /\ last' = [op |-> "construct", outcome |-> IF obj.ok THEN "ok" ELSE "AssertionError",
                    X |-> X, y |-> y]
        /\ UNCHANGED <<alVars, wrapperVars, envVars, datasets, reg_log, trainer_config>>

MemError(kind) == [outcome |-> kind, x |-> <<>>, y |-> 0, idx |-> <<>>]

\* lines 50-59; x is <<X[item]>> or, for a tuple, <<X[0][item], X[1][item]>>
MemGetItem(m, item) ==
    IF \/ item + 1 \notin DOMAIN m.X.w
       \/ m.X.kind = "pair" /\ item + 1 \notin DOMAIN m.X.s
       \/ item + 1 \notin DOMAIN m.y
    THEN MemError("IndexError")
    ELSE [outcome |-> "ok",
          x |-> IF m.X.kind = "pair" THEN <<m.X.w[item + 1], m.X.s[item + 1]>> ELSE <<m.X.w[item + 1]>>,
          y |-> m.y[item + 1],
          idx |-> IF m.return_indices THEN <<item>> ELSE <<>>]

MemGet(item) ==
    /\ mem.ok
    /\ last' = [op |-> "get", outcome |-> "returned", item |-> item, result |-> MemGetItem(mem, item)]
    /\ UNCHANGED <<alVars, wrapperVars, envVars, moduleVars>>

\* get_inputs that hands out the first component of a tuple.
GetInputsFirst(m) == [outcome |-> "ok", value |-> Single(m.X.w)]

\* lines 61-64
GetInputs(m) ==
    IF m.X.kind = "pair"
    THEN [outcome |-> "Exception", value |-> NoEmb]
    ELSE [outcome |-> "ok", value |-> m.X]

MemGetInputs ==
    /\ mem.ok
    /\ last' = [op |-> "get_inputs", outcome |-> GetInputs(mem).outcome, value |-> GetInputs(mem).value]
    /\ UNCHANGED <<alVars, wrapperVars, envVars, moduleVars>>

\* lines 66-67
MemGetLabels ==
    /\ mem.ok
    /\ last' = [op |-> "get_labels", outcome |-> "ok", value |-> mem.y]
    /\ UNCHANGED <<alVars, wrapperVars, envVars, moduleVars>>

\* lines 47-48
MemLen ==
    /\ mem.ok
    /\ last' = [op |-> "len", outcome |-> "ok", value |-> Len(mem.y)]
    /\ UNCHANGED <<alVars, wrapperVars, envVars, moduleVars>>

\* lines 69-70
MemSetReturnIndices(return_indices) ==
    /\ mem.ok
    /\ mem' = [mem EXCEPT !.return_indices = return_indices]
    /\ last' = [op |-> "set_return_indices", outcome |-> "ok"]
    /\ UNCHANGED <<alVars, wrapperVars, envVars, datasets, reg_log, trainer_config>>

\* ------------------------------------------------------- feature extractor
\* A feature extractor object: is_extractor is the isinstance test, v the
\* state of the model that produces the embeddings, fail_at the split on
\* which get_feature raises ("none": it never raises).
FeatureExtractors ==
    [is_extractor : {TRUE}, v : 0..MaxVal, fail_at : {"none", "train", "val", "test"}]
    \cup {[is_extractor |-> FALSE, v |-> 0, fail_at |-> "none"]}

\* feature_extractor.get_feature(dataset, dataset_split, epoch, use_strong)
GetFeature(fe, split, epoch, use_strong) ==
    IF use_strong /\ split = "train"
    THEN Paired(Mat(SplitLen(split), fe.v), StrongMat(SplitLen(split), fe.v))
    ELSE Single(Mat(SplitLen(split), fe.v))

\* epoch arguments
Epochs == {0, 1}

SplitIndex(split) ==
    IF split = "train" THEN 1 ELSE IF split = "val" THEN 2 ELSE IF split = "test" THEN 3 ELSE 4

\* -------------------------------------------------------- TransformDataset
\* Transform functions: None, or a named unary function on the integers.
Transforms == {"None", "inc", "dbl"}

Apply(t, x) == IF t = "inc" THEN x + 1 ELSE IF t = "dbl" THEN 2 * x ELSE x

\* Base datasets: item i is (input, label), or (input, label, metadata).
PlainBase == [i \in 1..BaseLen |-> <<10 * i, i % 2>>]
MetaBase == [i \in 1..BaseLen |-> <<10 * i, i % 2, 7>>]

\* lines 81-89
TransformDataset(dataset, transform, target_transform, ignore_metadata) ==
    [dataset |-> dataset,
     transform |-> transform,
     strong_transform |-> "None",
     target_transform |-> target_transform,
     default_transform |-> transform,
     default_target_transform |-> target_transform,
     ignore_metadata |-> ignore_metadata,
     return_indices |-> FALSE]

WrittenAtInit(w) ==
    [transform |-> w.transform, strong_transform |-> w.strong_transform,
     target_transform |-> w.target_transform]

GetError(kind) == [outcome |-> kind, x |-> <<>>, y |-> 0, idx |-> <<>>]

\* lines 94-111.  The returned tuple is (x, y) or (x, y, item); x is kept as
\* <<weak>> or, with a strong transform, <<weak, strong>>.  A name that is
\* only assigned under `if self.__transform:` is unbound when the transform
\* is None, and reading it raises UnboundLocalError.
GetItem(dataset, transform, target_transform, strong_transform, ignore_metadata, return_indices, item) ==
    IF item \notin 0..(Len(dataset) - 1)
    THEN GetError("IndexError")
    ELSE LET raw == dataset[item + 1]
             fields == IF ignore_metadata THEN SubSeq(raw, 1, 2) ELSE raw
         IN  IF Len(fields) # 2
             THEN GetError("ValueError")
             ELSE LET x_orig == fields[1]
                      y == IF target_transform # "None"
                           THEN Apply(target_transform, fields[2]) ELSE fields[2]
                  IN  IF transform = "None"
                      THEN GetError("UnboundLocalError")
                      ELSE [outcome |-> "ok",
                            x |-> IF strong_transform # "None"
                                  THEN <<Apply(transform, x_orig), Apply(strong_transform, x_orig)>>
                                  ELSE <<Apply(transform, x_orig)>>,
                            y |-> y,
                            idx |-> IF return_indices THEN <<item>> ELSE <<>>]

\* A read that uses the transform captured at construction.
StaleTransform(w) == w.default_transform

\* self.__transform / self.__target_transform / self.__strong_transform as
\* __getitem__ reads them
ActiveTransform(w) == w.transform
ActiveTargetTransform(w) == w.target_transform
ActiveStrongTransform(w) == w.strong_transform

Get(item) ==
    /\ last' = [op |-> "get", outcome |-> "returned", item |-> item,
                result |-> GetItem(wrapper.dataset, ActiveTransform(wrapper),
                                   ActiveTargetTransform(wrapper), ActiveStrongTransform(wrapper),
                                   wrapper.ignore_metadata, wrapper.return_indices, item)]
    /\ UNCHANGED <<alVars, wrapperVars, envVars, moduleVars>>

\* lines 116-117
SetTransform(transform) ==
    /\ wrapper' = [wrapper EXCEPT !.transform = transform]
    /\ written' = [written EXCEPT !.transform = transform]
    /\ reset_done' = [transform |-> FALSE, target_transform |-> FALSE, custom |-> TRUE]
    /\ last' = [op |-> "set_transform", outcome |-> "ok"]
    /\ UNCHANGED <<alVars, moduleVars, base>>

\* lines 119-120
SetStrongTransform(strong_transform) ==
    /\ wrapper' = [wrapper EXCEPT !.strong_transform = strong_transform]
    /\ written' = [written EXCEPT !.strong_transform = strong_transform]
    /\ reset_done' = [transform |-> FALSE, target_transform |-> FALSE, custom |-> TRUE]
    /\ last' = [op |-> "set_strong_transform", outcome |-> "ok"]
    /\ UNCHANGED <<alVars, moduleVars, base>>

\* lines 122-123
SetTargetTransform(target_transform) ==
    /\ wrapper' = [wrapper EXCEPT !.target_transform = target_transform]
    /\ written' = [written EXCEPT !.target_transform = target_transform]
    /\ reset_done' = [transform |-> FALSE, target_transform |-> FALSE, custom |-> TRUE]
    /\ last' = [op |-> "set_target_transform", outcome |-> "ok"]
    /\ UNCHANGED <<alVars, moduleVars, base>>

\* A reset that clears the input transform.
DefaultTransformNone(w) == "None"

\* self.__default_transform / self.__default_target_transform, the values the
\* resets assign (lines 126, 129)
DefaultTransform(w) == w.default_transform
DefaultTargetTransform(w) == w.default_target_transform

\* lines 125-126
SetToDefaultTransform ==
    /\ wrapper' = [wrapper EXCEPT !.transform = DefaultTransform(wrapper)]
    /\ written' = [written EXCEPT !.transform = DefaultTransform(wrapper)]
    /\ reset_done' = [reset_done EXCEPT !.transform = TRUE]
    /\ last' = [op |-> "set_to_default_transform", outcome |-> "ok"]
    /\ UNCHANGED <<alVars, moduleVars, base>>

\* lines 128-129
SetToDefaultTargetTransform ==
    /\ wrapper' = [wrapper EXCEPT !.target_transform = DefaultTargetTransform(wrapper)]
    /\ written' = [written EXCEPT !.target_transform = DefaultTargetTransform(wrapper)]
    /\ reset_done' = [reset_done EXCEPT !.target_transform = TRUE]
    /\ last' = [op |-> "set_to_default_target_transform", outcome |-> "ok"]
    /\ UNCHANGED <<alVars, moduleVars, base>>

\* lines 131-132
SetReturnIndices(return_indices) ==
    /\ wrapper' = [wrapper EXCEPT !.return_indices = return_indices]
    /\ last' = [op |-> "set_return_indices", outcome |-> "ok"]
    /\ UNCHANGED <<alVars, moduleVars, written, base, reset_done>>

\* lines 91-92
LenWrapper ==
    /\ last' = [op |-> "len", outcome |-> "ok", value |-> Len(wrapper.dataset)]
    /\ UNCHANGED <<alVars, wrapperVars, envVars, moduleVars>>

\* A wrapper that copied the base dataset at construction.
SharedCopy(held, current) == held

\* line 82: self.dataset = dataset stores the object itself, so what the
\* wrapper holds after its owner changed the base is the changed base.
Shared(held, current) == current

\* The item the owner of the base dataset appends next.
NewItem(dataset) ==
    LET i == Len(dataset) + 1
    IN  IF dataset # <<>> /\ Len(dataset[1]) = 3 THEN <<10 * i, i % 2, 7>> ELSE <<10 * i, i % 2>>

\* The owner of the base dataset appends an item to it, or drops its last.
BaseAppend ==
    /\ Len(base) < MaxBaseLen
    /\ base' = Append(base, NewItem(base))
    /\ wrapper' = [wrapper EXCEPT !.dataset = Shared(wrapper.dataset, base')]
    /\ last' = [op |-> "base_append", outcome |-> "ok"]
    /\ UNCHANGED <<alVars, moduleVars, written, reset_done, reader>>

BasePop ==
    /\ base # <<>>
    /\ base' = SubSeq(base, 1, Len(base) - 1)
    /\ wrapper' = [wrapper EXCEPT !.dataset = Shared(wrapper.dataset, base')]
    /\ last' = [op |-> "base_pop", outcome |-> "ok"]
    /\ UNCHANGED <<alVars, moduleVars, written, reset_done, reader>>

\* ------------------------------------------- __getitem__, one read at a time
\* The reader raises: the call is over.
ReaderRaises(kind) ==
    /\ reader' = [reader EXCEPT !.pc = "done", !.result = GetError(kind)]
    /\ last' = [op |-> "get", outcome |-> "returned", item |-> reader.item, result |-> GetError(kind)]

\* lines 95-98: the item is read from the base dataset and unpacked
ReadBase(item) ==
    /\ reader.pc \in {"idle", "done"}
    /\ LET started == [NoReader EXCEPT !.item = item,
                                       !.seen = [f \in DOMAIN wrapper \cap DOMAIN NoReader.seen |-> {wrapper[f]}]]
           early == IF item \notin 0..(Len(wrapper.dataset) - 1) THEN GetError("IndexError")
                    ELSE IF ~wrapper.ignore_metadata /\ Len(wrapper.dataset[item + 1]) # 2
                    THEN GetError("ValueError")
                    ELSE GetError("none")
       IN  IF early.outcome # "none"
           THEN /\ reader' = [started EXCEPT !.pc = "done", !.result = early]
                /\ last' = [op |-> "get", outcome |-> "returned", item |-> item, result |-> early]
           ELSE /\ reader' = [started EXCEPT !.pc = "test_transform",
                                             !.x_orig = wrapper.dataset[item + 1][1],
                                             !.y = wrapper.dataset[item + 1][2]]
                /\ UNCHANGED last
    /\ UNCHANGED <<alVars, wrapperVars, base, reset_done, moduleVars>>

\* line 100: if self.__transform:
TestTransform ==
    /\ reader.pc = "test_transform"
    /\ reader' = [reader EXCEPT !.pc = IF ActiveTransform(wrapper) # "None"
                                       THEN "call_transform" ELSE "test_target"]
    /\ UNCHANGED <<alVars, wrapperVars, base, reset_done, moduleVars, last>>

\* line 101: x = self.__transform(x_orig), a second read of the field
CallTransform ==
    /\ reader.pc = "call_transform"
    /\ IF ActiveTransform(wrapper) = "None"
       THEN ReaderRaises("TypeError")
       ELSE /\ reader' = [reader EXCEPT !.pc = "test_target",
                                         !.x = <<Apply(ActiveTransform(wrapper), reader.x_orig)>>,
                                         !.applied.transform = ActiveTransform(wrapper)]
            /\ UNCHANGED last
    /\ UNCHANGED <<alVars, wrapperVars, base, reset_done, moduleVars>>

\* line 102: if self.__target_transform:
TestTarget ==
    /\ reader.pc = "test_target"
    /\ reader' = [reader EXCEPT !.pc = IF ActiveTargetTransform(wrapper) # "None"
                                       THEN "call_target" ELSE "test_strong"]
    /\ UNCHANGED <<alVars, wrapperVars, base, reset_done, moduleVars, last>>

\* line 103: y = self.__target_transform(y)
CallTarget ==
    /\ reader.pc = "call_target"
    /\ IF ActiveTargetTransform(wrapper) = "None"
       THEN ReaderRaises("TypeError")
       ELSE /\ reader' = [reader EXCEPT !.pc = "test_strong",
                                         !.y = Apply(ActiveTargetTransform(wrapper), reader.y),
                                         !.applied.target_transform = ActiveTargetTransform(wrapper)]
            /\ UNCHANGED last
    /\ UNCHANGED <<alVars, wrapperVars, base, reset_done, moduleVars>>

\* line 104: if self.__strong_transform:
TestStrong ==
    /\ reader.pc = "test_strong"
    /\ reader' = [reader EXCEPT !.pc = IF ActiveStrongTransform(wrapper) # "None"
                                       THEN "call_strong" ELSE "return"]
    /\ UNCHANGED <<alVars, wrapperVars, base, reset_done, moduleVars, last>>

\* lines 105-106: xs = self.__strong_transform(x_orig); x = (x, xs)
CallStrong ==
    /\ reader.pc = "call_strong"
    /\ IF ActiveStrongTransform(wrapper) = "None"
       THEN ReaderRaises("TypeError")
       ELSE IF reader.x = <<>>
       THEN ReaderRaises("UnboundLocalError")
       ELSE /\ reader' = [reader EXCEPT !.pc = "return",
                                         !.x = reader.x \o <<Apply(ActiveStrongTransform(wrapper), reader.x_orig)>>,
                                         !.applied.strong_transform = ActiveStrongTransform(wrapper)]
            /\ UNCHANGED last
    /\ UNCHANGED <<alVars, wrapperVars, base, reset_done, moduleVars>>

\* lines 108-111
ReaderReturn ==
    /\ reader.pc = "return"
    /\ IF reader.x = <<>>
       THEN ReaderRaises("UnboundLocalError")
       ELSE LET r == [outcome |-> "ok", x |-> reader.x, y |-> reader.y,
                      idx |-> IF wrapper.return_indices THEN <<reader.item>> ELSE <<>>]
            IN  /\ reader' = [reader EXCEPT !.pc = "done", !.result = r]
                /\ last' = [op |-> "get", outcome |-> "returned", item |-> reader.item, result |-> r]
    /\ UNCHANGED <<alVars, wrapperVars, base, reset_done, moduleVars>>

\* A setter of another thread assigns value to field while the reader is
\* where it is.
WriterAssigns(field, value) ==
    /\ reader.writes < MaxWrites
    /\ reader' = [reader EXCEPT !.seen[field] = @ \cup {value}, !.writes = @ + 1]

\* get(item) on a wrapper constructed afresh with w's construction arguments
\* (lines 81-89 keep them: dataset, the two defaults, ignore_metadata).
FreshGet(w, item) ==
    LET f == TransformDataset(w.dataset, w.default_transform, w.default_target_transform, w.ignore_metadata)
    IN  GetItem(f.dataset, f.transform, f.target_transform, f.strong_transform, f.ignore_metadata, f.return_indices, item)

\* The wrapper the ALDataset runs hold fixed.
TrainWrapper == TransformDataset(PlainBase, "inc", "None", FALSE)

\* ------------------------------------------------------------- ALDataset
\* The state outside the ALDataset and its wrappers, untouched by their runs.
ModuleIdle ==
    /\ mem = NoMem
    /\ datasets = EmptyRegistry
    /\ reg_log = <<>>
    /\ trainer_config = NoConfig

Init ==
    /\ wrapper = TrainWrapper
    /\ written = WrittenAtInit(TrainWrapper)
    /\ base = TrainWrapper.dataset
    /\ reset_done = NoReset
    /\ reader = NoReader
    /\ ModuleIdle
    /\ train_emb = NoEmb
    /\ val_emb = NoEmb
    /\ test_emb = NoEmb
    /\ train_emb_mean = PendingStat
    /\ train_emb_std = PendingStat
    /\ labeled = NoTracker
    /\ \E lazy \in BOOLEAN :
            /\ train_labels = (IF lazy THEN LazyLabels ELSE Realized(LabelArray("train")))
            /\ val_labels = (IF lazy THEN LazyLabels ELSE Realized(LabelArray("val")))
            /\ test_labels = (IF lazy THEN LazyLabels ELSE Realized(LabelArray("test")))
            /\ albench = ALBenchInit(lazy)
    /\ producer_calls = [s \in {"train", "val", "test"} |-> 0]
    /\ label_calls = <<>>
    /\ last = NoCall

\* An update that drops every embedding when get_feature raises.
EmbAfterUpdateInvalidate(old, fe, split, epoch, use_strong) ==
    IF fe.fail_at = "none" THEN GetFeature(fe, split, epoch, use_strong) ELSE NoEmb

\* An update that asks for the train split in every iteration.
EmbAfterUpdateTrainOnly(old, fe, split, epoch, use_strong) ==
    IF SplitIndex(split) < SplitIndex(fe.fail_at)
    THEN GetFeature(fe, "train", epoch, use_strong)
    ELSE old

\* An update that restores the previous embeddings when get_feature raises.
EmbAfterUpdateRollback(old, fe, split, epoch, use_strong) ==
    IF fe.fail_at = "none" THEN GetFeature(fe, split, epoch, use_strong) ELSE old

\* One iteration of the loop of update_embedding_dataset for `split`: the
\* value of self.<split>_emb when the call returns or raises.  The iteration
\* stores the result unless get_feature raised in this or an earlier one.
EmbAfterUpdate(old, fe, split, epoch, use_strong) ==
    IF SplitIndex(split) < SplitIndex(fe.fail_at)
    THEN GetFeature(fe, split, epoch, use_strong)
    ELSE old

\* The get_feature invocations of one update_embedding_dataset call, in order,
\* each with its arguments and with what it returned (or that it raised).
ExtractorLog(fe, epoch, use_strong) ==
    [i \in 1..(IF SplitIndex(fe.fail_at) < 3 THEN SplitIndex(fe.fail_at) ELSE 3) |->
        [dataset |-> Splits[i] \o "_dataset", split |-> Splits[i],
         epoch |-> epoch, use_strong |-> use_strong,
         raised |-> (Splits[i] = fe.fail_at),
         result |-> IF Splits[i] = fe.fail_at THEN NoEmb
                    ELSE GetFeature(fe, Splits[i], epoch, use_strong)]]

\* An update that makes the statistics pending again, to be recomputed from
\* the new embeddings.
UpdateEmbeddingDatasetResetStats(epoch, fe, use_strong) ==
    /\ fe.is_extractor
    /\ train_emb' = EmbAfterUpdate(train_emb, fe, "train", epoch, use_strong)
    /\ val_emb' = EmbAfterUpdate(val_emb, fe, "val", epoch, use_strong)
    /\ test_emb' = EmbAfterUpdate(test_emb, fe, "test", epoch, use_strong)
    /\ train_emb_mean' = PendingStat
    /\ train_emb_std' = PendingStat
    /\ last' = [op |-> "update_embedding_dataset",
                outcome |-> IF fe.fail_at = "none" THEN "ok" ELSE "ExtractorError",
                epoch |-> epoch, use_strong |-> use_strong,
                fail_at |-> fe.fail_at,
                log |-> ExtractorLog(fe, epoch, use_strong)]
    /\ UNCHANGED <<labelVars, trackerVars, wrapperVars, envVars, moduleVars>>

\* lines 176-189
UpdateEmbeddingDataset(epoch, fe, use_strong) ==
    /\ IF ~fe.is_extractor
       THEN /\ UNCHANGED embVars
            /\ last' = [op |-> "update_embedding_dataset", outcome |-> "AssertionError",
                        epoch |-> epoch, use_strong |-> use_strong,
                        fail_at |-> "none", log |-> <<>>]
       ELSE /\ train_emb' = EmbAfterUpdate(train_emb, fe, "train", epoch, use_strong)
            /\ val_emb' = EmbAfterUpdate(val_emb, fe, "val", epoch, use_strong)
            /\ test_emb' = EmbAfterUpdate(test_emb, fe, "test", epoch, use_strong)
            /\ last' = [op |-> "update_embedding_dataset",
                        outcome |-> IF fe.fail_at = "none" THEN "ok" ELSE "ExtractorError",
                        epoch |-> epoch, use_strong |-> use_strong,
                        fail_at |-> fe.fail_at,
                        log |-> ExtractorLog(fe, epoch, use_strong)]
    /\ UNCHANGED <<statVars, labelVars, trackerVars, wrapperVars, envVars, moduleVars>>

\* A guard that fails only when all three embeddings are missing.
EmbeddingInitializedAny(te, ve, se) ==
    ~(te.kind = "none" /\ ve.kind = "none" /\ se.kind = "none")

\* A guard that looks at the train split only.
EmbeddingInitializedTrainOnly(te, ve, se) == te.kind # "none"

\* line 208: not (train_emb is None or val_emb is None or test_emb is None)
EmbeddingInitialized(te, ve, se) ==
    ~(te.kind = "none" \/ ve.kind = "none" \/ se.kind = "none")

\* A producer whose result is used but not stored.
RealizeLabelsNoMemo(field, split) == field

\* `if callable(self.__x_labels): self.__x_labels = self.__x_labels()`:
\* the field after the statement.
RealizeLabels(field, split) ==
    IF field.lazy THEN Realized(LabelArray(split)) ELSE field

\* The number of producer invocations that statement makes.
ProducerRuns(field) == IF field.lazy THEN 1 ELSE 0

\* self.train_emb[0] when train_emb is a tuple, self.train_emb otherwise
StatSource(emb) == IF emb.kind = "pair" THEN emb.w ELSE emb.w

\* A mean recomputed from the current train embedding on every call.
FreezeMeanRecompute(stat, emb) == FrozenStat(NpMean(StatSource(emb)))

\* lines 217-221: the mean is computed only while the field is still callable
FreezeMean(stat, emb) ==
    IF stat.pending THEN FrozenStat(NpMean(StatSource(emb))) ELSE stat

\* lines 222-226
FreezeStd(stat, emb) ==
    IF stat.pending THEN FrozenStat(NpStd(StatSource(emb))) ELSE stat

\* lines 227-235: the train embedding, normalized per component when paired
NormalizeTrain(emb, mean, std) ==
    IF emb.kind = "pair"
    THEN Paired(Normalize(emb.w, mean, std), Normalize(emb.s, mean, std))
    ELSE Single(Normalize(emb.w, mean, std))

\* lines 236-241: (self.val_emb - mean) / std, no tuple branch
NormalizePlain(emb, mean, std) == Single(Normalize(emb.w, mean, std))

NotInitialized == "Exception: Embedding is not initialized."

GetEmbeddingDatasets ==
    IF ~EmbeddingInitialized(train_emb, val_emb, test_emb)
    THEN /\ last' = [op |-> "get_embedding_datasets", outcome |-> NotInitialized]
         /\ UNCHANGED <<embVars, statVars, labelVars, trackerVars, wrapperVars, envVars, moduleVars>>
    ELSE /\ train_labels' = RealizeLabels(train_labels, "train")
         /\ val_labels' = RealizeLabels(val_labels, "val")
         /\ test_labels' = RealizeLabels(test_labels, "test")
         /\ producer_calls' =
                [producer_calls EXCEPT !["train"] = @ + ProducerRuns(train_labels),
                                       !["val"] = @ + ProducerRuns(val_labels),
                                       !["test"] = @ + ProducerRuns(test_labels)]
         /\ train_emb_mean' = FreezeMean(train_emb_mean, train_emb)
         /\ train_emb_std' = FreezeStd(train_emb_std, train_emb)
         /\ LET train_ds == DatasetOnMemory(
                    NormalizeTrain(train_emb, train_emb_mean'.v, train_emb_std'.v),
                    train_labels'.v, NumClasses)
                val_ds == DatasetOnMemory(
                    NormalizePlain(val_emb, train_emb_mean'.v, train_emb_std'.v),
                    val_labels'.v, NumClasses)
                test_ds == DatasetOnMemory(
                    NormalizePlain(test_emb, train_emb_mean'.v, train_emb_std'.v),
                    test_labels'.v, NumClasses)
            IN  last' = IF train_ds.ok /\ val_ds.ok /\ test_ds.ok
                        THEN [op |-> "get_embedding_datasets", outcome |-> "ok",
                              value |-> <<train_ds, val_ds, test_ds>>]
                        ELSE [op |-> "get_embedding_datasets", outcome |-> "AssertionError"]
         /\ UNCHANGED <<embVars, trackerVars, wrapperVars, envVars, moduleVars>>

\* shape[0], the number of rows, instead of shape[1].
EmbeddingDimRows(emb) == Len(emb.w)

\* lines 246-249: shape[1] of the first component when paired, of the matrix otherwise
EmbeddingDim(emb) ==
    IF emb.kind = "pair" THEN Shape1(emb.w) ELSE Shape1(emb.w)

GetEmbeddingDim ==
    /\ last' = IF train_emb.kind = "none"
               THEN [op |-> "get_embedding_dim", outcome |-> "AssertionError"]
               ELSE [op |-> "get_embedding_dim", outcome |-> "ok",
                     value |-> EmbeddingDim(train_emb)]
    /\ UNCHANGED <<embVars, statVars, labelVars, trackerVars, wrapperVars, envVars, moduleVars>>

GetTrainLabels ==
    /\ train_labels' = RealizeLabels(train_labels, "train")
    /\ producer_calls' = [producer_calls EXCEPT !["train"] = @ + ProducerRuns(train_labels)]
    /\ last' = [op |-> "get_train_labels", outcome |-> "ok", value |-> train_labels'.v]
    /\ UNCHANGED <<embVars, statVars, val_labels, test_labels, trackerVars, wrapperVars, envVars, moduleVars>>

\* lines 251-256
GetInputDatasets ==
    /\ last' = [op |-> "get_input_datasets", outcome |-> "ok",
                value |-> <<"train_dataset", "val_dataset", "test_dataset">>]
    /\ UNCHANGED <<embVars, statVars, labelVars, trackerVars, wrapperVars, envVars, moduleVars>>

\* A tracker that puts the new indexes in front of the old ones.
AppendIdxsPrepend(tracker, new_idxs) ==
    IF ~tracker.present THEN Tracker(new_idxs) ELSE Tracker(new_idxs \o tracker.v)

\* A tracker that keeps only the newest indexes.
AppendIdxsReplace(tracker, new_idxs) == Tracker(new_idxs)

\* lines 197-201: np.array(new_idxs) the first time, np.concatenate afterwards
AppendIdxs(tracker, new_idxs) ==
    IF ~tracker.present THEN Tracker(new_idxs) ELSE Tracker(tracker.v \o new_idxs)

UpdateLabeledIdxs(new_idxs) ==
    /\ Len(label_calls) < MaxCalls
    /\ Len(labeled.v) + Len(new_idxs) <= MaxLabeled
    /\ labeled' = AppendIdxs(labeled, new_idxs)
    /\ label_calls' = Append(label_calls, new_idxs)
    /\ last' = [op |-> "update_labeled_idxs", outcome |-> "ok"]
    /\ UNCHANGED <<embVars, statVars, labelVars, wrapperVars, envVars, moduleVars>>

\* line 272: len(self.__labeled_idxs); len(None) raises TypeError
NumLabeled ==
    /\ last' = IF ~labeled.present
               THEN [op |-> "num_labeled", outcome |-> "TypeError"]
               ELSE [op |-> "num_labeled", outcome |-> "ok", value |-> Len(labeled.v)]
    /\ UNCHANGED <<embVars, statVars, labelVars, trackerVars, wrapperVars, envVars, moduleVars>>

\* np.array(self.__labeled_idxs): a copy of the array, and for None the
\* 0-dimensional object array that holds None (no error is raised).
NpArrayOfTracker(tracker) ==
    IF tracker.present THEN [ndim |-> 1, v |-> tracker.v] ELSE [ndim |-> 0, v |-> <<>>]

\* line 276
LabeledIdxs ==
    /\ last' = [op |-> "labeled_idxs", outcome |-> "ok", value |-> NpArrayOfTracker(labeled)]
    /\ UNCHANGED <<embVars, statVars, labelVars, trackerVars, wrapperVars, envVars, moduleVars>>

\* A complement taken over range(1, len(self) + 1).
UnlabeledSetOffByOne(tracker, n) ==
    (1..n) \ {tracker.v[k] : k \in DOMAIN tracker.v}

\* lines 280-282: set(range(len(self))) - set(labeled indexes)
UnlabeledSet(tracker, n) ==
    (0..(n - 1)) \ {tracker.v[k] : k \in DOMAIN tracker.v}

\* list(a_set): the elements of the set, each once, in an order the set decides
Orderings(S) ==
    {f \in [1..Cardinality(S) -> S] : \A i, j \in 1..Cardinality(S) : f[i] = f[j] => i = j}

\* lines 278-282; list() of the 0-dimensional array raises TypeError
UnlabeledIdxs ==
    /\ IF NpArrayOfTracker(labeled).ndim = 0
       THEN last' = [op |-> "unlabeled_idxs", outcome |-> "TypeError"]
       ELSE \E order \in Orderings(UnlabeledSet(labeled, TrainLen)) :
                last' = [op |-> "unlabeled_idxs", outcome |-> "ok", value |-> order]
    /\ UNCHANGED <<embVars, statVars, labelVars, trackerVars, wrapperVars, envVars, moduleVars>>

\* ------------------------------------------------- ALDataset, ALBench copy
\* (src/ALBench/skeleton/dataset_skeleton.py)  Each operation constrains the
\* fields of the ALBench object only.  Its update_embedding_dataset takes a
\* function where the LabelBench one takes a FeatureExtractor object: fn
\* stands for either, is_extractor for "is callable", and what the function
\* returns for a split is what the object's get_feature returns for it
\* without strong augmentation.
ALBenchGetFeature(fn, split, epoch) == Single(Mat(SplitLen(split), fn.v))

\* lines 162-165, one iteration of the loop
ALBenchEmbAfterUpdate(old, fn, split, epoch) ==
    IF SplitIndex(split) < SplitIndex(fn.fail_at)
    THEN ALBenchGetFeature(fn, split, epoch)
    ELSE old

\* lines 153-165
ALBenchUpdateEmbeddingDataset(epoch, fn) ==
    albench' =
        IF ~fn.is_extractor
        THEN [albench EXCEPT !.last = [op |-> "update_embedding_dataset", outcome |-> "AssertionError"]]
        ELSE [albench EXCEPT
                !.train_emb = ALBenchEmbAfterUpdate(@, fn, "train", epoch),
                !.val_emb = ALBenchEmbAfterUpdate(@, fn, "val", epoch),
                !.test_emb = ALBenchEmbAfterUpdate(@, fn, "test", epoch),
                !.last = [op |-> "update_embedding_dataset",
                          outcome |-> IF fn.fail_at = "none" THEN "ok" ELSE "ExtractorError"]]

\* A tracker that puts the new indexes in front of the old ones.
ALBenchAppendIdxsPrepend(tracker, new_idxs) ==
    IF ~tracker.present THEN Tracker(new_idxs) ELSE Tracker(new_idxs \o tracker.v)

\* lines 173-177
ALBenchAppendIdxs(tracker, new_idxs) ==
    IF ~tracker.present THEN Tracker(new_idxs) ELSE Tracker(tracker.v \o new_idxs)

\* lines 167-177
ALBenchUpdateLabeledIdxs(new_idxs) ==
    albench' = [albench EXCEPT !.labeled = ALBenchAppendIdxs(@, new_idxs),
                               !.last = [op |-> "update_labeled_idxs", outcome |-> "ok"]]

\* `if callable(self.__x_labels): self.__x_labels = self.__x_labels()`
ALBenchRealizeLabels(field, split) ==
    IF field.lazy THEN Realized(LabelArray(split)) ELSE field

\* lines 199-202: np.mean / np.std of train_emb, only while still callable
ALBenchFreezeMean(stat, emb) == IF stat.pending THEN FrozenStat(NpMean(emb.w)) ELSE stat
ALBenchFreezeStd(stat, emb) == IF stat.pending THEN FrozenStat(NpStd(emb.w)) ELSE stat

\* lines 37-45 of the ALBench DatasetOnMemory, meta_data = None
ALBenchDatasetOnMemory(X, y, n_class) ==
    IF Len(X) = Len(y)
    THEN [ok |-> TRUE, X |-> X, y |-> y, n_class |-> n_class]
    ELSE [ok |-> FALSE, X |-> <<>>, y |-> <<>>, n_class |-> n_class]

\* lines 179-208
ALBenchGetEmbeddingDatasets ==
    albench' =
        IF albench.train_emb.kind = "none" \/ albench.val_emb.kind = "none" \/ albench.test_emb.kind = "none"
        THEN [albench EXCEPT !.last = [op |-> "get_embedding_datasets", outcome |-> NotInitialized]]
        ELSE LET train_y == ALBenchRealizeLabels(albench.train_labels, "train")
                 val_y == ALBenchRealizeLabels(albench.val_labels, "val")
                 test_y == ALBenchRealizeLabels(albench.test_labels, "test")
                 mean == ALBenchFreezeMean(albench.train_emb_mean, albench.train_emb)
                 std == ALBenchFreezeStd(albench.train_emb_std, albench.train_emb)
                 train_ds == ALBenchDatasetOnMemory(Normalize(albench.train_emb.w, mean.v, std.v), train_y.v, NumClasses)
                 val_ds == ALBenchDatasetOnMemory(Normalize(albench.val_emb.w, mean.v, std.v), val_y.v, NumClasses)
                 test_ds == ALBenchDatasetOnMemory(Normalize(albench.test_emb.w, mean.v, std.v), test_y.v, NumClasses)
             IN  [albench EXCEPT
                    !.train_labels = train_y, !.val_labels = val_y, !.test_labels = test_y,
                    !.train_emb_mean = mean, !.train_emb_std = std,
                    !.last = IF train_ds.ok /\ val_ds.ok /\ test_ds.ok
                             THEN [op |-> "get_embedding_datasets", outcome |-> "ok",
                                   value |-> <<train_ds.X, val_ds.X, test_ds.X>>]
                             ELSE [op |-> "get_embedding_datasets", outcome |-> "AssertionError"]]

\* lines 210-213
ALBenchGetEmbeddingDim ==
    albench' = [albench EXCEPT !.last =
        IF albench.train_emb.kind = "none"
        THEN [op |-> "get_embedding_dim", outcome |-> "AssertionError"]
        ELSE [op |-> "get_embedding_dim", outcome |-> "ok", value |-> Shape1(albench.train_emb.w)]]

\* lines 234-236
ALBenchNumLabeled ==
    albench' = [albench EXCEPT !.last =
        IF ~albench.labeled.present
        THEN [op |-> "num_labeled", outcome |-> "TypeError"]
        ELSE [op |-> "num_labeled", outcome |-> "ok", value |-> Len(albench.labeled.v)]]

\* lines 238-240
ALBenchLabeledIdxs ==
    albench' = [albench EXCEPT !.last =
        [op |-> "labeled_idxs", outcome |-> "ok", value |-> NpArrayOfTracker(albench.labeled)]]

\* lines 242-245
ALBenchGetTrainLabels ==
    albench' = [albench EXCEPT
        !.train_labels = ALBenchRealizeLabels(@, "train"),
        !.last = [op |-> "get_train_labels", outcome |-> "ok",
                  value |-> ALBenchRealizeLabels(albench.train_labels, "train").v]]

Next ==
    \/ \E epoch \in Epochs, fe \in FeatureExtractors, use_strong \in BOOLEAN :
            UpdateEmbeddingDataset(epoch, fe, use_strong) /\ UNCHANGED albench
    \/ GetEmbeddingDatasets /\ UNCHANGED albench
    \/ GetEmbeddingDim /\ UNCHANGED albench
    \/ GetTrainLabels /\ UNCHANGED albench
    \/ GetInputDatasets /\ UNCHANGED albench

Spec == Init /\ [][Next]_vars

\* ----------------------------------------------- the labeled-index tracker
\* new_idxs arguments: lists over two indexes of the training split and one
\* value past its end (the method validates nothing).
IdxValues == {0, 1, TrainLen}

IdxLists ==
    UNION {[1..n -> IdxValues] : n \in 0..MaxNew}

\* The feature extractors the tracker runs use: one model state.
TrackerExtractors ==
    {fe \in FeatureExtractors : fe.is_extractor /\ fe.v = 1 /\ fe.fail_at \in {"none", "val"}}

InitTracker ==
    /\ Init
    /\ train_labels = LazyLabels
    /\ val_labels = LazyLabels
    /\ test_labels = LazyLabels

NextTracker ==
    \/ \E new_idxs \in IdxLists : UpdateLabeledIdxs(new_idxs) /\ UNCHANGED albench
    \/ NumLabeled /\ UNCHANGED albench
    \/ LabeledIdxs /\ UNCHANGED albench
    \/ UnlabeledIdxs /\ UNCHANGED albench
    \/ \E fe \in TrackerExtractors : UpdateEmbeddingDataset(0, fe, FALSE) /\ UNCHANGED albench
    \/ GetEmbeddingDatasets /\ UNCHANGED albench
    \/ GetEmbeddingDim /\ UNCHANGED albench
    \/ GetTrainLabels /\ UNCHANGED albench
    \/ GetInputDatasets /\ UNCHANGED albench

SpecTracker == InitTracker /\ [][NextTracker]_vars

\* ------------------------------------------------- the transform wrapper
InitTransform ==
    /\ train_emb = NoEmb
    /\ val_emb = NoEmb
    /\ test_emb = NoEmb
    /\ train_emb_mean = PendingStat
    /\ train_emb_std = PendingStat
    /\ labeled = NoTracker
    /\ train_labels = LazyLabels
    /\ val_labels = LazyLabels
    /\ test_labels = LazyLabels
    /\ producer_calls = [s \in {"train", "val", "test"} |-> 0]
    /\ label_calls = <<>>
    /\ albench = ALBenchInit(TRUE)
    /\ \E dataset \in {PlainBase, MetaBase}, transform \in Transforms,
          target_transform \in Transforms, ignore_metadata \in BOOLEAN :
            /\ wrapper = TransformDataset(dataset, transform, target_transform, ignore_metadata)
            /\ written = WrittenAtInit(wrapper)
            /\ base = dataset
    /\ reset_done = NoReset
    /\ reader = NoReader
    /\ ModuleIdle
    /\ last = NoCall

NextTransform ==
    \/ \E item \in 0..BaseLen : Get(item)
    \/ \E transform \in Transforms : SetTransform(transform) /\ UNCHANGED reader
    \/ \E strong_transform \in Transforms : SetStrongTransform(strong_transform) /\ UNCHANGED reader
    \/ \E target_transform \in Transforms : SetTargetTransform(target_transform) /\ UNCHANGED reader
    \/ SetToDefaultTransform /\ UNCHANGED reader
    \/ SetToDefaultTargetTransform /\ UNCHANGED reader
    \/ \E return_indices \in BOOLEAN : SetReturnIndices(return_indices) /\ UNCHANGED reader

SpecTransform == InitTransform /\ [][NextTransform]_vars

\* The ALDataset fields while no ALDataset is in play.
ALIdle ==
    /\ train_emb = NoEmb
    /\ val_emb = NoEmb
    /\ test_emb = NoEmb
    /\ train_emb_mean = PendingStat
    /\ train_emb_std = PendingStat
    /\ labeled = NoTracker
    /\ train_labels = LazyLabels
    /\ val_labels = LazyLabels
    /\ test_labels = LazyLabels
    /\ producer_calls = [s \in {"train", "val", "test"} |-> 0]
    /\ label_calls = <<>>
    /\ albench = ALBenchInit(TRUE)

\* A wrapper over a base dataset its owner keeps changing.
InitBase ==
    /\ ALIdle
    /\ \E dataset \in {PlainBase, MetaBase}, transform \in {"None", "inc"} :
            /\ wrapper = TransformDataset(dataset, transform, "None", TRUE)
            /\ written = WrittenAtInit(wrapper)
            /\ base = dataset
    /\ reset_done = NoReset
    /\ reader = NoReader
    /\ ModuleIdle
    /\ last = NoCall

NextBase ==
    \/ LenWrapper
    \/ BaseAppend
    \/ BasePop
    \/ \E item \in 0..MaxBaseLen : Get(item)
    \/ \E transform \in {"None", "dbl"} : SetTransform(transform) /\ UNCHANGED reader
    \/ \E strong_transform \in {"None", "dbl"} : SetStrongTransform(strong_transform) /\ UNCHANGED reader
    \/ \E target_transform \in {"None", "inc"} : SetTargetTransform(target_transform) /\ UNCHANGED reader
    \/ SetToDefaultTransform /\ UNCHANGED reader
    \/ SetToDefaultTargetTransform /\ UNCHANGED reader
    \/ \E return_indices \in BOOLEAN : SetReturnIndices(return_indices) /\ UNCHANGED reader

SpecBase == InitBase /\ [][NextBase]_vars

\* Constructions of and calls on a DatasetOnMemory.
InitMemory ==
    /\ ALIdle
    /\ wrapper = TrainWrapper
    /\ written = WrittenAtInit(TrainWrapper)
    /\ base = TrainWrapper.dataset
    /\ reset_done = NoReset
    /\ reader = NoReader
    /\ ModuleIdle
    /\ last = NoCall

NextMemory ==
    \/ \E X \in MemInputs, n \in 0..MaxMemLen : Construct(X, MemLabels(n))
    \/ \E item \in 0..MaxMemLen : MemGet(item)
    \/ MemGetInputs
    \/ MemGetLabels
    \/ MemLen
    \/ \E return_indices \in BOOLEAN : MemSetReturnIndices(return_indices)

SpecMemory == InitMemory /\ [][NextMemory]_vars

\* Decorations of dataset functions and lookups in the registry.
NextRegistry ==
    \/ \E name \in DatasetNames, type \in LabelTypes, get_fn \in GetFns :
            RegisterDataset(name, type, get_fn)
    \/ \E name \in DatasetNames : LookupDataset(name)

\* line 14: datasets = {} when the module is imported
InitRegistry == InitMemory /\ datasets = EmptyRegistry

SpecRegistry == InitRegistry /\ [][NextRegistry]_vars

\* Trainer configurations and their optimizer setup.
InitTrainer == InitMemory /\ trainer_config = NoConfig

NextTrainer ==
    \/ \E c \in TrainerConfigs : SupplyConfig(c)
    \/ GetOptimizerFn

SpecTrainer == InitTrainer /\ [][NextTrainer]_vars

\* One thread inside __getitem__, another calling the setters.
InitThreads ==
    /\ ALIdle
    /\ \E transform \in {"None", "inc"}, target_transform \in {"None", "inc"} :
            /\ wrapper = TransformDataset(PlainBase, transform, target_transform, FALSE)
            /\ written = WrittenAtInit(wrapper)
    /\ base = PlainBase
    /\ reset_done = NoReset
    /\ reader = NoReader
    /\ ModuleIdle
    /\ last = NoCall

NextThreads ==
    \/ \E item \in 0..BaseLen : ReadBase(item)
    \/ TestTransform
    \/ CallTransform
    \/ TestTarget
    \/ CallTarget
    \/ TestStrong
    \/ CallStrong
    \/ ReaderReturn
    \/ \E transform \in {"None", "dbl"} : SetTransform(transform) /\ WriterAssigns("transform", transform)
    \/ \E strong_transform \in {"None", "dbl"} :
            SetStrongTransform(strong_transform) /\ WriterAssigns("strong_transform", strong_transform)
    \/ \E target_transform \in {"None", "dbl"} :
            SetTargetTransform(target_transform) /\ WriterAssigns("target_transform", target_transform)
    \/ SetToDefaultTransform /\ WriterAssigns("transform", DefaultTransform(wrapper))
    \/ SetToDefaultTargetTransform /\ WriterAssigns("target_transform", DefaultTargetTransform(wrapper))

SpecThreads == InitThreads /\ [][NextThreads]_vars

\* The two ALDataset copies driven by the same calls: the extractor handed
\* to the LabelBench copy and the function handed to the ALBench copy return
\* the same single matrices.
EquivExtractors ==
    {fe \in FeatureExtractors : fe.v \in {0, 1} /\ fe.fail_at \in {"none", "val"}}

\* new_idxs arguments of the paired runs
EquivIdxLists == {<<>>, <<0>>, <<1, 0>>}

NextEquiv ==
    \/ \E fe \in EquivExtractors :
            UpdateEmbeddingDataset(0, fe, FALSE) /\ ALBenchUpdateEmbeddingDataset(0, fe)
    \/ \E new_idxs \in EquivIdxLists : UpdateLabeledIdxs(new_idxs) /\ ALBenchUpdateLabeledIdxs(new_idxs)
    \/ GetEmbeddingDatasets /\ ALBenchGetEmbeddingDatasets
    \/ GetEmbeddingDim /\ ALBenchGetEmbeddingDim
    \/ NumLabeled /\ ALBenchNumLabeled
    \/ LabeledIdxs /\ ALBenchLabeledIdxs
    \/ GetTrainLabels /\ ALBenchGetTrainLabels

SpecEquiv == Init /\ [][NextEquiv]_vars

\* ===================================================================== claims
AnyEmbAbsent == train_emb = NoEmb \/ val_emb = NoEmb \/ test_emb = NoEmb

\* C1: every get_embedding_datasets() call fails with the "Embedding is not
\* initialized" condition exactly when one of train_emb, val_emb, test_emb is
\* absent, and returns the three datasets otherwise; the embeddings are absent
\* until an update_embedding_dataset call stores them (only that operation
\* changes them), an update that completed leaves all three present, and once
\* all three are present they stay present.
C1_NotInitializedIffAbsent ==
    [][ /\ (last'.op = "get_embedding_datasets" =>
                /\ (last'.outcome = NotInitialized <=> AnyEmbAbsent)
                /\ (~AnyEmbAbsent => last'.outcome = "ok"))
        /\ (embVars' # embVars => last'.op = "update_embedding_dataset")
        /\ (last'.op = "update_embedding_dataset" /\ last'.outcome = "ok" => ~AnyEmbAbsent')
        /\ (~AnyEmbAbsent => ~AnyEmbAbsent') ]_vars

\* C1 witness: a call that failed as not initialized although the train embedding
\* is present (an update stored train and raised on val).
C1_Witness ==
    /\ last.op = "get_embedding_datasets"
    /\ last.outcome = NotInitialized
    /\ train_emb # NoEmb
    /\ val_emb = NoEmb

RECURSIVE Flatten(_)
Flatten(lists) == IF lists = <<>> THEN <<>> ELSE Head(lists) \o Flatten(Tail(lists))

RECURSIVE SumLen(_)
SumLen(lists) == IF lists = <<>> THEN 0 ELSE Len(Head(lists)) + SumLen(Tail(lists))

\* C3: after the calls update_labeled_idxs(L1), ..., update_labeled_idxs(Ln),
\* n >= 1, the tracker is L1 ++ ... ++ Ln in call order, labeled_idxs()
\* returns that sequence and num_labeled() the sum of the lengths; repeated
\* indexes are kept.
C3_ConcatenationInCallOrder ==
    label_calls # <<>> =>
        /\ labeled.present
        /\ labeled.v = Flatten(label_calls)
        /\ (last.op = "num_labeled" =>
                last.outcome = "ok" /\ last.value = SumLen(label_calls))
        /\ (last.op = "labeled_idxs" =>
                last.outcome = "ok" /\ last.value = [ndim |-> 1, v |-> Flatten(label_calls)])

\* C3 witness: labeled_idxs() returned a sequence of three indexes with a
\* repeated one, built by more than one call.
C3_Witness ==
    /\ last.op = "labeled_idxs"
    /\ Len(label_calls) >= 2
    /\ Len(last.value.v) = 3
    /\ last.value.v[1] = last.value.v[3]
    /\ last.value.v[1] # last.value.v[2]

IsPrefix(a, b) == Len(a) <= Len(b) /\ SubSeq(b, 1, Len(a)) = a

\* C4: the tracker is append-only: whatever operation runs, a tracker that
\* exists still exists afterwards and its old value is a prefix of its new one.
C4_AppendOnly ==
    [][ labeled.present => labeled'.present /\ IsPrefix(labeled.v, labeled'.v) ]_vars

\* C4 witness: two update_labeled_idxs calls that both added indexes,
\* interleaved with an embedding update and a get_embedding_datasets call.
C4_Witness ==
    /\ Len(label_calls) = 2
    /\ label_calls[1] # <<>>
    /\ label_calls[2] # <<>>
    /\ train_emb # NoEmb
    /\ ~train_emb_mean.pending

\* C5: once update_labeled_idxs has been called, unlabeled_idxs() returns the
\* elements of 0..train_length-1 that do not occur in the tracker, each once.
C5_UnlabeledIsComplement ==
    last.op = "unlabeled_idxs" /\ labeled.present =>
        /\ last.outcome = "ok"
        /\ \A i, j \in DOMAIN last.value : last.value[i] = last.value[j] => i = j
        /\ {last.value[i] : i \in DOMAIN last.value} =
                {k \in 0..(TrainLen - 1) : \A i \in DOMAIN labeled.v : labeled.v[i] # k}

\* C5 witness: unlabeled_idxs() returned a non-empty result while the tracker
\* holds a repeated index and an index outside the training split.
C5_Witness ==
    /\ last.op = "unlabeled_idxs"
    /\ last.outcome = "ok"
    /\ Len(last.value) >= 1
    /\ \E i, j \in DOMAIN labeled.v : i # j /\ labeled.v[i] = labeled.v[j]
    /\ \E i \in DOMAIN labeled.v : labeled.v[i] >= TrainLen

\* C6: while the tracker is absent, num_labeled() and labeled_idxs() both fail
\* instead of returning a value.
C6_AbsentTrackerAccessFails ==
    last.op \in {"num_labeled", "labeled_idxs"} /\ ~labeled.present => last.outcome # "ok"

\* C7: the extractor is invoked for train, val, test in that order; when the
\* call for val raises, the error reaches the caller, train_emb holds what the
\* extractor returned for train in this call, and val_emb and test_emb keep
\* their previous values.
C7_NoRollbackOnValFailure ==
    [][ last'.op = "update_embedding_dataset" =>
            /\ \A i \in DOMAIN last'.log : last'.log[i].split = Splits[i]
            /\ (last'.fail_at = "val" =>
                    /\ last'.outcome = "ExtractorError"
                    /\ Len(last'.log) = 2
                    /\ ~last'.log[1].raised
                    /\ last'.log[2].raised
                    /\ train_emb' = last'.log[1].result
                    /\ val_emb' = val_emb
                    /\ test_emb' = test_emb) ]_vars

\* C7 witness: the first round failed on val: train_emb is the new result,
\* val_emb and test_emb are still absent.
C7_Witness ==
    /\ last.op = "update_embedding_dataset"
    /\ last.fail_at = "val"
    /\ train_emb = last.log[1].result
    /\ train_emb # NoEmb
    /\ val_emb = NoEmb
    /\ test_emb = NoEmb

\* C8: each label producer runs at most once; it has not run while its field
\* is still lazy, a realized field is never changed again nor its producer
\* run again, and get_train_labels() returns the memoized array.
C8_ProducerRunsOnce ==
    [][ /\ \A sp \in {"train", "val", "test"} : producer_calls'[sp] <= 1
        /\ (train_labels'.lazy => producer_calls'["train"] = 0)
        /\ (val_labels'.lazy => producer_calls'["val"] = 0)
        /\ (test_labels'.lazy => producer_calls'["test"] = 0)
        /\ (~train_labels.lazy =>
                train_labels' = train_labels /\ producer_calls'["train"] = producer_calls["train"])
        /\ (~val_labels.lazy =>
                val_labels' = val_labels /\ producer_calls'["val"] = producer_calls["val"])
        /\ (~test_labels.lazy =>
                test_labels' = test_labels /\ producer_calls'["test"] = producer_calls["test"])
        /\ (last'.op = "get_train_labels" =>
                /\ ~train_labels'.lazy
                /\ last'.value = train_labels'.v
                /\ last'.value = LabelArray("train")) ]_vars

\* C8 witness: get_train_labels() ran after get_embedding_datasets() had
\* realized all three producers, and each producer has run once.
C8_Witness ==
    /\ last.op = "get_train_labels"
    /\ producer_calls["train"] = 1
    /\ producer_calls["val"] = 1
    /\ producer_calls["test"] = 1

\* C9: get_embedding_dim() fails exactly when train_emb is absent and otherwise
\* returns the number of columns of train_emb (of its first component when it
\* is a pair), whatever val_emb and test_emb are.
C9_EmbeddingDim ==
    last.op = "get_embedding_dim" =>
        /\ (last.outcome = "AssertionError" <=> train_emb = NoEmb)
        /\ (train_emb # NoEmb =>
                /\ last.outcome = "ok"
                /\ last.value = Len(train_emb.w[1])
                /\ last.value = EmbDim)

\* C9 witness: get_embedding_dim() returned for a paired train embedding
\* after a round that failed on val.
C9_Witness ==
    /\ last.op = "get_embedding_dim"
    /\ last.outcome = "ok"
    /\ train_emb.kind = "pair"
    /\ val_emb = NoEmb

\* C10: every get(i) is computed from the base item with the value last
\* assigned to each transform field (by the constructor, a setter or a reset),
\* never with an earlier one.
C10_ReadsUseCurrentTransforms ==
    last.op = "get" =>
        last.result = GetItem(wrapper.dataset, written.transform, written.target_transform,
                              written.strong_transform, wrapper.ignore_metadata,
                              wrapper.return_indices, last.item)

\* C10 witness: a get(i) that returned the input transformed by a transform
\* set after construction, which differs from the default transform's result.
C10_Witness ==
    /\ last.op = "get"
    /\ last.result.outcome = "ok"
    /\ written.transform # wrapper.default_transform
    /\ wrapper.default_transform # "None"
    /\ last.result.x[1] = Apply(written.transform, wrapper.dataset[last.item + 1][1])
    /\ last.result.x[1] # Apply(wrapper.default_transform, wrapper.dataset[last.item + 1][1])

\* C11 (as stated): after any sequence of custom transform setter calls
\* followed by both reset-to-default operations, get(i) returns what get(i)
\* returns on a freshly constructed wrapper with the same construction
\* arguments.  set_strong_transform is such a setter and has no reset.
ResetsDone == reset_done.transform /\ reset_done.target_transform

C11_ResetReproducesFresh ==
    (ResetsDone /\ last.op = "get" /\ ~wrapper.return_indices)
        => last.result = FreshGet(wrapper, last.item)

\* C11 (amended): the same, for sequences that leave no strong transform
\* set: set_transform / set_target_transform calls (and set_strong_transform
\* calls undone by set_strong_transform(None)) followed by both resets.
C11_ResetReproducesFreshWithoutStrong ==
    (ResetsDone /\ ActiveStrongTransform(wrapper) = "None" /\ last.op = "get" /\ ~wrapper.return_indices)
        => last.result = FreshGet(wrapper, last.item)

C11_Witness ==
    /\ ResetsDone /\ reset_done.custom
    /\ ActiveStrongTransform(wrapper) = "None" /\ ~wrapper.return_indices
    /\ last.op = "get" /\ last.result.outcome = "ok"
    /\ last.result = FreshGet(wrapper, last.item)

\* C12: len(W) == len(D) in every reachable state, after any sequence of
\* setter, reset and set_return_indices calls, and it follows the current
\* length of D because the base is held by reference.
C12_LenTracksBase == last.op = "len" => last.value = Len(base)

C12_Witness ==
    /\ last.op = "len" /\ last.value = Len(base)
    /\ Len(base) # BaseLen
    /\ reset_done.custom /\ reset_done.transform /\ wrapper.return_indices

\* C13: constructing a DatasetOnMemory fails, at construction, whenever the
\* inputs and the labels differ in length (for paired inputs: unless both
\* components have the labels' length); so every constructed instance has
\* len(inputs) == len(labels), for each component when paired, and get(i)
\* never is where a mismatch shows: it fails for out-of-range i only.
LengthsDiffer(X, y) == Len(X.w) # Len(y) \/ (X.kind = "pair" /\ Len(X.s) # Len(y))

C13_MismatchFailsAtConstruction ==
    /\ last.op = "construct" =>
          /\ last.outcome = "AssertionError" <=> LengthsDiffer(last.X, last.y)
          /\ last.outcome = "ok" <=> ~LengthsDiffer(last.X, last.y)
          /\ last.outcome = "ok" => mem.ok /\ mem.X = last.X /\ mem.y = last.y
    /\ mem.ok => ~LengthsDiffer(mem.X, mem.y)
    /\ (mem.ok /\ last.op = "get") =>
          (last.result.outcome = "ok" <=> last.item < Len(mem.y))

C13_Witness ==
    /\ last.op = "construct" /\ last.outcome = "AssertionError"
    /\ last.X.kind = "pair" /\ Len(last.X.w) = Len(last.y) /\ Len(last.X.s) # Len(last.y)
    /\ mem.ok

\* C14: for every combination of set/unset input, target and strong
\* transform, get(i) succeeds for in-range i and returns: as weak view the
\* input transform applied to the base input if it is set, else the base
\* input itself; with a strong transform set, the pair (weak view, strong
\* view) as input; the target transform applied to the label if set, else
\* the label; and i as third element exactly when return_indices is set.
Unpacks(w, item) ==
    /\ item \in 0..(Len(w.dataset) - 1)
    /\ w.ignore_metadata \/ Len(w.dataset[item + 1]) = 2

ExpectedGet(w, item) ==
    LET x_orig == w.dataset[item + 1][1]
        label == w.dataset[item + 1][2]
        weak == IF w.transform # "None" THEN Apply(w.transform, x_orig) ELSE x_orig
    IN  [outcome |-> "ok",
         x |-> IF w.strong_transform # "None" THEN <<weak, Apply(w.strong_transform, x_orig)>> ELSE <<weak>>,
         y |-> IF w.target_transform # "None" THEN Apply(w.target_transform, label) ELSE label,
         idx |-> IF w.return_indices THEN <<item>> ELSE <<>>]

C14_GetAppliesSetTransforms ==
    (last.op = "get" /\ Unpacks(wrapper, last.item))
        => last.result = ExpectedGet(wrapper, last.item)

\* C15: the registry is a last-registration-wins map: after any sequence of
\* registrations, a name maps to the (label type, function) pair of the most
\* recent registration under that name, registrations under other names
\* leave it alone, and registering a name again raises no error.
RegistrationsOf(name) == {i \in 1..Len(reg_log) : reg_log[i].name = name}

LatestRegistration(name) ==
    IF RegistrationsOf(name) = {} THEN NotRegistered
    ELSE LET i == CHOOSE k \in RegistrationsOf(name) : \A j \in RegistrationsOf(name) : j <= k
         IN  [present |-> TRUE, type |-> reg_log[i].type, get_fn |-> reg_log[i].get_fn]

C15_LastRegistrationWins ==
    /\ \A name \in DatasetNames : datasets[name] = LatestRegistration(name)
    /\ last.op = "lookup" => last.value = LatestRegistration(last.name)
    /\ last.op = "register_dataset" =>
          last.outcome = "ok" /\ reg_log # <<>> /\ reg_log[Len(reg_log)].name = last.name

C15_Witness ==
    /\ last.op = "lookup" /\ last.outcome = "ok"
    /\ Len(reg_log) = 3
    /\ reg_log[1].name = last.name /\ reg_log[3].name = last.name /\ reg_log[2].name # last.name
    /\ reg_log[1].type # reg_log[3].type /\ reg_log[1].get_fn # reg_log[3].get_fn
    /\ last.value.type = reg_log[3].type /\ last.value.get_fn = reg_log[3].get_fn

\* C16 (as stated): for every trainer configuration whose optim_name is
\* neither "Adam" nor "SGD", get_optimizer_fn raises an error that
\* identifies the bad value and installs no optim_fn in the configuration.
UnknownOptim(c) == c.optim_name.present /\ c.optim_name.v \notin {"Adam", "SGD"}

RaisedUnknownOptim ==
    /\ last.outcome = "ValueError"
    /\ last.message # <<>> /\ last.message[1] = last.config.optim_name.v
    /\ ~trainer_config.optim_fn.present
    /\ trainer_config = last.config

C16_UnknownOptimFails ==
    (last.op = "get_optimizer_fn" /\ UnknownOptim(last.config)) => RaisedUnknownOptim

\* C16 (amended): the same for every configuration whose trainer_name does
\* not have "sklearn" before its first underscore; for the sklearn trainers
\* get_optimizer_fn never reads optim_name: it raises nothing and returns the
\* configuration as it was, without an optim_fn.
IsSklearn(c) ==
    /\ Len(c.trainer_name) >= Len(Sklearn)
    /\ SubSeq(c.trainer_name, 1, Len(Sklearn)) = Sklearn
    /\ Len(c.trainer_name) > Len(Sklearn) => c.trainer_name[Len(Sklearn) + 1] = "_"

C16_UnknownOptimFailsUnlessSklearn ==
    (last.op = "get_optimizer_fn" /\ UnknownOptim(last.config)) =>
        IF IsSklearn(last.config)
        THEN last.outcome = "ok" /\ trainer_config = last.config /\ ~trainer_config.optim_fn.present
        ELSE RaisedUnknownOptim

C16_Witness ==
    /\ last.op = "get_optimizer_fn" /\ UnknownOptim(last.config)
    /\ ~IsSklearn(last.config) /\ SubSeq(last.config.trainer_name, 1, Len(Sklearn)) = Sklearn
    /\ RaisedUnknownOptim

\* C17: on a DatasetOnMemory, get_inputs() returns the whole input container
\* when the inputs are one sequence and fails when they are a weak/strong
\* pair; get_labels() returns the whole label container either way; get(i)
\* returns (inputs[i], labels[i]), or ((inputs0[i], inputs1[i]), labels[i])
\* for a pair, with i appended exactly when return_indices is set.
C17_MemoryAccessors ==
    mem.ok =>
        /\ last.op = "get_inputs" =>
              IF mem.X.kind = "pair"
              THEN last.outcome = "Exception"
              ELSE last.outcome = "ok" /\ last.value = mem.X
        /\ last.op = "get_labels" => last.outcome = "ok" /\ last.value = mem.y
        /\ (last.op = "get" /\ last.item < Len(mem.y)) =>
              /\ last.result.outcome = "ok"
              /\ last.result.x = IF mem.X.kind = "pair"
                                 THEN <<WeakInputs(Len(mem.y))[last.item + 1], StrongInputs(Len(mem.y))[last.item + 1]>>
                                 ELSE <<WeakInputs(Len(mem.y))[last.item + 1]>>
              /\ last.result.y = MemLabels(Len(mem.y))[last.item + 1]
              /\ last.result.idx = IF mem.return_indices THEN <<last.item>> ELSE <<>>

C17_Witness ==
    /\ mem.ok /\ mem.X.kind = "pair" /\ Len(mem.y) = MaxMemLen
    /\ last.op = "get_inputs" /\ last.outcome = "Exception"

\* C18: when one thread changes a transform field (a setter or a reset)
\* while another is inside get(i) on the same wrapper, with get interleaved
\* read by read, the get completes without error and each transform it
\* applied is a value that field held during the call (the old one or a
\* newly written one); a get that runs after the writers have finished
\* observes the last written values.
TransformFields == {"transform", "target_transform", "strong_transform"}

C18_ConcurrentGetSeesOldOrNew ==
    (reader.pc = "done" /\ Unpacks(wrapper, reader.item)) =>
        /\ reader.result.outcome = "ok"
        /\ \A f \in TransformFields : reader.applied[f] \in reader.seen[f]
        /\ reader.writes = 0 =>
              reader.result = ExpectedGet([wrapper EXCEPT !.transform = written.transform,
                                                          !.target_transform = written.target_transform,
                                                          !.strong_transform = written.strong_transform],
                                          reader.item)

\* C19: a successful update_embedding_dataset(epoch, extractor, use_strong)
\* invokes the extractor exactly once per split, in the order train, val,
\* test, each time with that split's dataset, the split name, the given
\* epoch and the given use_strong flag, and afterwards each of train_emb,
\* val_emb, test_emb is the result returned for its own split, whatever it
\* was before; the first such call makes the embeddings initialized and
\* later calls keep them so.
C19_UpdateStoresPerSplit ==
    [][ /\ (last'.op = "update_embedding_dataset" /\ last'.outcome = "ok") =>
              /\ Len(last'.log) = 3
              /\ \A i \in 1..3 :
                    /\ last'.log[i].split = Splits[i]
                    /\ last'.log[i].dataset = Splits[i] \o "_dataset"
                    /\ last'.log[i].epoch = last'.epoch
                    /\ last'.log[i].use_strong = last'.use_strong
                    /\ ~last'.log[i].raised
                    /\ Len(last'.log[i].result.w) = SplitLen(Splits[i])
              /\ train_emb' = last'.log[1].result
              /\ val_emb' = last'.log[2].result
              /\ test_emb' = last'.log[3].result
              /\ ~AnyEmbAbsent'
        /\ (~AnyEmbAbsent => ~AnyEmbAbsent') ]_vars

\* C19 witness: a second successful round, with use_strong, has replaced
\* the embeddings of a first one whose statistics are frozen.
C19_Witness ==
    /\ last.op = "update_embedding_dataset" /\ last.outcome = "ok"
    /\ last.use_strong /\ last.epoch = 1
    /\ ~train_emb_mean.pending
    /\ train_emb = last.log[1].result /\ train_emb.kind = "pair"
    /\ val_emb = last.log[2].result /\ test_emb = last.log[3].result

\* C20: a partial failure invalidates nothing: when an update_embedding_dataset
\* that follows a fully successful one fails on val or test, the splits it
\* did not reach keep the previous round's embeddings, and a
\* get_embedding_datasets() right after it does not fail as uninitialized
\* but returns datasets built from the new round's train embedding and the
\* previous round's embeddings of the other splits; only the absence of an
\* embedding makes get_embedding_datasets() report "not initialized".
FailedRound(call) ==
    call.op = "update_embedding_dataset" /\ call.outcome = "ExtractorError" /\ call.fail_at \in {"val", "test"}

C20_PartialFailureNotRecorded ==
    [][ /\ (FailedRound(last') /\ ~AnyEmbAbsent) =>
              /\ ~AnyEmbAbsent'
              /\ train_emb' = last'.log[1].result
              /\ val_emb' = IF last'.fail_at = "val" THEN val_emb ELSE last'.log[2].result
              /\ test_emb' = test_emb
        /\ (last'.op = "get_embedding_datasets" /\ FailedRound(last) /\ ~AnyEmbAbsent) =>
              /\ last'.outcome = "ok"
              /\ last'.value[1].X = NormalizeTrain(last.log[1].result, train_emb_mean'.v, train_emb_std'.v)
              /\ last'.value[2].X = NormalizePlain(val_emb, train_emb_mean'.v, train_emb_std'.v)
              /\ last'.value[3].X = NormalizePlain(test_emb, train_emb_mean'.v, train_emb_std'.v)
        /\ (last'.op = "get_embedding_datasets" /\ last'.outcome = NotInitialized) => AnyEmbAbsent
      ]_vars

\* C20 witness: get_embedding_datasets() returned while the train embedding
\* comes from a later model state than the val and test embeddings.
C20_Witness ==
    /\ last.op = "get_embedding_datasets" /\ last.outcome = "ok"
    /\ train_emb = Single(Mat(TrainLen, 1))
    /\ val_emb = Single(Mat(ValLen, 0))
    /\ test_emb = Single(Mat(TestLen, 0))

\* C21: a get_embedding_datasets() call that fails as uninitialized changes
\* nothing of the ALDataset: no label producer runs, the label fields stay
\* as they are and the statistics stay pending; so the statistics are
\* computed by the first call that passes the initialization check, with
\* all three embeddings present, not by the first call attempted.
C21_FailedGetChangesNothing ==
    [][ /\ (last'.op = "get_embedding_datasets" /\ last'.outcome = NotInitialized) =>
              /\ UNCHANGED <<embVars, statVars, labelVars, trackerVars>>
              /\ AnyEmbAbsent
        /\ statVars' # statVars =>
              /\ last'.op = "get_embedding_datasets"
              /\ last'.outcome # NotInitialized
              /\ ~AnyEmbAbsent
              /\ train_emb_mean.pending /\ ~train_emb_mean'.pending
              /\ train_emb_std.pending /\ ~train_emb_std'.pending
      ]_vars

\* C21 witness: a call failed as uninitialized after an update had stored
\* the train embedding; the producers have not run and the statistics are
\* still pending.
C21_Witness ==
    /\ last.op = "get_embedding_datasets" /\ last.outcome = NotInitialized
    /\ train_emb # NoEmb /\ test_emb = NoEmb
    /\ train_labels.lazy /\ val_labels.lazy /\ test_labels.lazy
    /\ \A split \in {"train", "val", "test"} : producer_calls[split] = 0
    /\ train_emb_mean.pending /\ train_emb_std.pending

\* C22: the embedding state and the labeled-index tracker are independent:
\* update_labeled_idxs leaves the embeddings, the statistics and the label
\* fields unchanged; update_embedding_dataset leaves the tracker, the
\* statistics and the label fields unchanged; get_embedding_datasets,
\* get_embedding_dim, get_input_datasets, num_labeled, labeled_idxs and
\* unlabeled_idxs leave the embeddings and the tracker unchanged; and
\* get_input_datasets returns the three wrappers given at construction.
LabelFields == <<train_labels, val_labels, test_labels>>

ReadOnlyOps ==
    {"get_embedding_datasets", "get_embedding_dim", "get_input_datasets",
     "num_labeled", "labeled_idxs", "unlabeled_idxs"}

C22_EmbeddingsAndTrackerIndependent ==
    [][ /\ last'.op = "update_labeled_idxs" =>
              UNCHANGED <<embVars, statVars, LabelFields, producer_calls>>
        /\ last'.op = "update_embedding_dataset" =>
              UNCHANGED <<labeled, statVars, LabelFields, producer_calls>>
        /\ last'.op \in ReadOnlyOps => UNCHANGED <<embVars, labeled>>
        /\ last'.op = "get_input_datasets" =>
              /\ last'.outcome = "ok"
              /\ last'.value = <<"train_dataset", "val_dataset", "test_dataset">>
              /\ UNCHANGED wrapper
      ]_vars

\* C22 witness: update_labeled_idxs has just run on an ALDataset whose
\* embeddings are present, whose statistics are frozen and whose labels are
\* realized.
C22_Witness ==
    /\ last.op = "update_labeled_idxs"
    /\ labeled.present /\ Len(labeled.v) > 0
    /\ ~AnyEmbAbsent
    /\ ~train_emb_mean.pending /\ ~train_emb_std.pending
    /\ ~train_labels.lazy

\* C23: the ALBench and the LabelBench copy of ALDataset are observationally
\* equivalent on their shared operations when the embeddings are single
\* matrices and no weak labels are supplied: after every sequence of
\* update_embedding_dataset, update_labeled_idxs, get_embedding_datasets,
\* get_embedding_dim, num_labeled, labeled_idxs and get_train_labels calls
\* run on both with the same extractor results, the last call succeeded or
\* failed the same way on both, with the same value, and both hold the same
\* embeddings, frozen statistics, realized labels and tracker contents.
C23_CopiesEquivalent ==
    /\ albench.last.op = last.op
    /\ albench.last.outcome = last.outcome
    /\ last.op \in {"get_embedding_dim", "num_labeled", "labeled_idxs", "get_train_labels"} =>
          (last.outcome = "ok" => albench.last.value = last.value)
    /\ (last.op = "get_embedding_datasets" /\ last.outcome = "ok") =>
          \A i \in 1..3 : albench.last.value[i] = last.value[i].X.w
    /\ albench.train_emb = train_emb
    /\ albench.val_emb = val_emb
    /\ albench.test_emb = test_emb
    /\ albench.train_emb_mean = train_emb_mean
    /\ albench.train_emb_std = train_emb_std
    /\ albench.train_labels = train_labels
    /\ albench.val_labels = val_labels
    /\ albench.test_labels = test_labels
    /\ albench.labeled = labeled

\* C23 witness: both copies went through a failed round after a complete
\* one, froze their statistics, realized their labels and recorded labeled
\* indexes in two calls.
C23_Witness ==
    /\ albench.train_emb = Single(Mat(TrainLen, 1)) /\ train_emb = albench.train_emb
    /\ albench.val_emb = Single(Mat(ValLen, 0)) /\ val_emb = albench.val_emb
    /\ ~albench.train_emb_mean.pending /\ ~train_emb_mean.pending
    /\ ~albench.val_labels.lazy /\ ~val_labels.lazy
    /\ albench.labeled.present /\ labeled = albench.labeled
    /\ Len(label_calls) = 2 /\ Len(labeled.v) >= 2

====
